---- MODULE Spec2Model ----
(***************************************************************************)
(* Model of src/app.py: the Streamlit script that, for every uploaded leaf *)
(* image, saves it to a temporary file, sends it to the hosted inference   *)
(* workflow, interprets the response, draws the detections and shows the   *)
(* advice blocks, with the try/except of lines 86-140 around each image.   *)
(*                                                                         *)
(* A confidence is a float in [0,1]; it is modelled as an integer number   *)
(* of ten-thousandths (8700 is 0.87), so that formatting it to one decimal *)
(* of a percentage is a real rounding step.                                *)
(***************************************************************************)
EXTENDS Integers, Sequences, FiniteSets, TLC

\* Bounds of the model.
MaxFiles == 2
MaxDets == 2

----------------------------------------------------------------------------
\* Static data

\* app.py:8-25
DISEASE_INFO ==
    ("0" :> [name |-> "Leaf Spot",
             description |-> "Dark circular or irregular spots on leaves caused by fungal infection. Remove affected leaves and apply appropriate fungicides."])
 @@ ("1" :> [name |-> "Powdery Mildew",
             description |-> "White powdery fungal growth on leaves and stems. Use sulfur-based fungicides or neem oil spray for control."])
 @@ ("2" :> [name |-> "Rust",
             description |-> "Orange to reddish pustules on leaf undersides caused by rust fungus. Improve air circulation and apply fungicides."])
 @@ ("3" :> [name |-> "Blight",
             description |-> "Rapid browning and death of leaf tissue, usually due to bacterial or fungal infection. Remove infected plants and use copper-based sprays."])

----------------------------------------------------------------------------
\* Inputs: what the user uploads and what the inference service answers

\* What Image.open(...).convert("RGB") does with an upload (app.py:87):
\* "image" decodes; "not_image" raises UnidentifiedImageError (no decoder
\* recognises the file); "truncated" is recognised by its header and raises
\* OSError when the pixel data is loaded.
UploadKinds == {"image", "not_image", "truncated"}

RECURSIVE SeqsUpTo(_, _)
SeqsUpTo(S, n) ==
    IF n = 0 THEN {<<>>}
    ELSE LET shorter == SeqsUpTo(S, n - 1)
         IN  shorter \cup {Append(s, e) : s \in shorter, e \in S}

UploadBatches == SeqsUpTo(UploadKinds, MaxFiles)

\* Detection records as the service returns them (app.py:108-111): a dict
\* with x, y, width, height, class_id, confidence, any of which may be absent.
PredExample  == [x |-> 100, y |-> 100, width |-> 40, height |-> 40, class_id |-> 1, confidence |-> 8700]
PredNear     == [x |-> 100, y |-> 100, width |-> 40, height |-> 40, class_id |-> 1, confidence |-> 8704]
PredUnknown  == [x |-> 60, y |-> 80, width |-> 20, height |-> 10, class_id |-> 7, confidence |-> 9996]
PredBare     == [x |-> 30, y |-> 30, width |-> 10, height |-> 10]
PredNoX      == [y |-> 100, width |-> 40, height |-> 40, class_id |-> 0, confidence |-> 5000]

DetectionPool == {PredExample, PredNear, PredUnknown, PredBare, PredNoX}

DetectionLists == SeqsUpTo(DetectionPool, MaxDets)

\* The values client.run_workflow can return (app.py:95-100, read at 102-103):
\* an empty list, a list whose first element lacks "predictions", one whose
\* "predictions" lacks the inner "predictions", and the well-formed shape.
Responses ==
    {<<>>, <<[error |-> "x"]>>, <<[predictions |-> [image |-> 0]]>>}
    \cup {<<[predictions |-> [predictions |-> d]]>> : d \in DetectionLists}

----------------------------------------------------------------------------
\* Pure helpers of the rendering code

Digits == <<"0", "1", "2", "3", "4", "5", "6", "7", "8", "9">>

\* str() of a non-negative integer (app.py:110 for class_id; the integer
\* part of the percentage at app.py:116 and 128).
RECURSIVE IntStr(_)
IntStr(n) ==
    IF n < 10 THEN Digits[n + 1]
    ELSE IntStr(n \div 10) \o Digits[(n % 10) + 1]

\* app.py:110  class_id = str(pred.get("class_id", ""))
ClassIdStr(pred) ==
    IF "class_id" \in DOMAIN pred THEN IntStr(pred.class_id) ELSE ""

\* app.py:111  confidence = pred.get("confidence", 0)
Confidence(pred) ==
    IF "confidence" \in DOMAIN pred THEN pred.confidence ELSE 0

\* app.py:112  DISEASE_INFO.get(class_id, {}).get("name", "Unknown")
DiseaseName(class_id) ==
    IF class_id \in DOMAIN DISEASE_INFO THEN DISEASE_INFO[class_id].name ELSE "Unknown"

\* app.py:113  DISEASE_INFO.get(class_id, {}).get("description", "No description available.")
DiseaseDesc(class_id) ==
    IF class_id \in DOMAIN DISEASE_INFO THEN DISEASE_INFO[class_id].description
    ELSE "No description available."

\* A variant of the percentage formatting that cuts the second decimal off
\* instead of rounding.
FormatPctTruncated(conf) ==
    LET tenths == conf \div 10
    IN  IntStr(tenths \div 10) \o "." \o Digits[(tenths % 10) + 1]

\* app.py:116 and 128  f"{confidence*100:.1f}": the percentage rounded to
\* one decimal.  conf is in ten-thousandths, so the percentage in tenths is
\* conf / 10 rounded to the nearest integer.  (No confidence of the pool
\* lies exactly between two tenths; there the binary value of the float
\* decides.)
FormatPct(conf) ==
    LET tenths == (conf + 5) \div 10
    IN  IntStr(tenths \div 10) \o "." \o Digits[(tenths % 10) + 1]

\* app.py:116  label = f"{disease_name} ({confidence*100:.1f}%)"
Label(disease_name, confidence) ==
    disease_name \o " (" \o FormatPct(confidence) \o "%)"

\* app.py:114  the tuple added to detected_diseases
Triple(pred) ==
    <<DiseaseName(ClassIdStr(pred)), DiseaseDesc(ClassIdStr(pred)), Confidence(pred)>>

\* app.py:128  the advice block of one (name, desc, conf) tuple
AdviceBlock(t) ==
    "<div class=\"disease-info\"><b>" \o t[1] \o "</b> - Confidence: "
        \o FormatPct(t[3]) \o "%<br>" \o t[2] \o "</div>"

\* app.py:109  pred["x"], pred["y"], pred["width"], pred["height"]: a
\* missing key raises KeyError.
HasGeometry(pred) == {"x", "y", "width", "height"} \subseteq DOMAIN pred

\* app.py:117-122  the rectangle and the label drawn for one detection
Shape(pred) ==
    [rect  |-> <<pred.x - pred.width \div 2, pred.y - pred.height \div 2,
                 pred.x + pred.width \div 2, pred.y + pred.height \div 2>>,
     at    |-> <<pred.x - pred.width \div 2, pred.y - pred.height \div 2 - 20>>,
     label |-> Label(DiseaseName(ClassIdStr(pred)), Confidence(pred))]

\* app.py:108-122  the loop over the detections, from position k on: it
\* stops at the first record whose geometry is missing (KeyError), leaving
\* what it drew and collected so far.
RECURSIVE DrawAll(_, _, _, _)
DrawAll(dets, k, img, diseases) ==
    IF k > Len(dets) THEN [raised |-> FALSE, image |-> img, diseases |-> diseases]
    ELSE IF ~HasGeometry(dets[k]) THEN [raised |-> TRUE, image |-> img, diseases |-> diseases]
    ELSE DrawAll(dets, k + 1, Append(img, Shape(dets[k])), diseases \cup {Triple(dets[k])})

\* A variant of the test of line 102 that also asks for a non-empty list.
WellFormedNonEmpty(r) ==
    /\ r # <<>>
    /\ "predictions" \in DOMAIN r[1]
    /\ "predictions" \in DOMAIN r[1].predictions
    /\ r[1].predictions.predictions # <<>>

\* A variant of the test of line 102 without its third operand.
WellFormedOuterOnly(r) ==
    /\ r # <<>>
    /\ "predictions" \in DOMAIN r[1]

\* app.py:102  result and "predictions" in result[0] and
\*             "predictions" in result[0]["predictions"]
WellFormed(r) ==
    /\ r # <<>>
    /\ "predictions" \in DOMAIN r[1]
    /\ "predictions" \in DOMAIN r[1].predictions

\* app.py:103  detections = result[0]["predictions"]["predictions"]
Detections(r) == r[1].predictions.predictions

\* app.py:127  the iteration orders of a set
Orderings(S) ==
    {o \in [1..Cardinality(S) -> S] : \A e \in S : \E m \in DOMAIN o : o[m] = e}

----------------------------------------------------------------------------
\* State

VARIABLES
    uploaded_files,     \* app.py:81   the batch, one upload kind per file
    pc,                 \* position of the script
    idx,                \* app.py:84   position of uploaded_file in the batch
    exc,                \* the exception in flight between raise and handler
    image,              \* app.py:87   the shapes drawn on the opened image
    temp_files,         \* the temporary files that exist on disk
    temp_image_path,    \* app.py:92
    result,             \* app.py:95
    detected_diseases,  \* app.py:106
    advice,             \* app.py:128  the advice blocks shown for the current image
    page,               \* what Streamlit was asked to show, per image
    calls,              \* number of run_workflow calls, per image
    removes,            \* number of os.remove calls, per temporary file
    answered            \* what run_workflow did, per image

vars == <<uploaded_files, pc, idx, exc, image, temp_files, temp_image_path, result,
          detected_diseases, advice, page, calls, removes, answered>>

N == Len(uploaded_files)

\* tempfile.NamedTemporaryFile gives every call a fresh name (app.py:90).
TempName(j) == j

\* The shape of a response, as app.py:102-104 tells them apart.
Kind(r) ==
    IF r = <<>> THEN "empty_result"
    ELSE IF "predictions" \notin DOMAIN r[1] THEN "no_predictions"
    ELSE IF "predictions" \notin DOMAIN r[1].predictions THEN "no_inner_predictions"
    ELSE IF Detections(r) = <<>> THEN "no_detections"
    ELSE "detections"

Init ==
    /\ uploaded_files \in UploadBatches
    /\ pc = "start"
    /\ idx = 0
    /\ exc = "none"
    /\ image = <<>>
    /\ temp_files = {}
    /\ temp_image_path = 0
    /\ result = <<>>
    /\ detected_diseases = {}
    /\ advice = <<>>
    /\ page = [j \in 1..N |-> <<>>]
    /\ calls = [j \in 1..N |-> 0]
    /\ removes = [j \in 1..N |-> 0]
    /\ answered = [j \in 1..N |-> "not_called"]

\* st.<element>(...) inside the loop: the elements are appended to the
\* section of the image being processed.
Show(elements) == page' = [page EXCEPT ![idx] = @ \o elements]

\* app.py:84  the for statement takes the next file, or the loop ends.
NextFile ==
    IF idx < N THEN idx' = idx + 1 /\ pc' = "open"
    ELSE idx' = idx /\ pc' = "footer"

\* raise: control goes to the except clauses of app.py:137-140.
Raise(e) == exc' = e /\ pc' = "except"

----------------------------------------------------------------------------
\* Steps of the script

\* app.py:83  if uploaded_files: ... else: (141)
Start ==
    /\ pc = "start"
    /\ IF uploaded_files # <<>> THEN idx' = 1 /\ pc' = "open"
       ELSE idx' = idx /\ pc' = "info"
    /\ UNCHANGED <<uploaded_files, exc, image, temp_files, temp_image_path, result,
                   detected_diseases, advice, page, calls, removes, answered>>

\* app.py:142  st.info("Please upload ...")
ShowInfo ==
    /\ pc = "info"
    /\ pc' = "footer"
    /\ UNCHANGED <<uploaded_files, idx, exc, image, temp_files, temp_image_path, result,
                   detected_diseases, advice, page, calls, removes, answered>>

\* app.py:85-88  the section header, Image.open(...).convert("RGB"), st.image
OpenImage ==
    /\ pc = "open"
    /\ advice' = <<>>
    /\ CASE uploaded_files[idx] = "image" ->
                /\ image' = <<>>
                /\ Show(<<"header", "uploaded_image">>)
                /\ pc' = "save"
                /\ exc' = exc
         [] uploaded_files[idx] = "not_image" ->
                /\ Show(<<"header">>)
                /\ Raise("UnidentifiedImageError")
                /\ image' = image
         [] uploaded_files[idx] = "truncated" ->
                /\ Show(<<"header">>)
                /\ Raise("OSError")
                /\ image' = image
    /\ UNCHANGED <<uploaded_files, idx, temp_files, temp_image_path, result,
                   detected_diseases, calls, removes, answered>>

\* app.py:90-92  the temporary file is created (delete=False) and named
SaveTemp ==
    /\ pc = "save"
    /\ temp_files' = temp_files \cup {TempName(idx)}
    /\ temp_image_path' = TempName(idx)
    /\ pc' = "infer"
    /\ UNCHANGED <<uploaded_files, idx, exc, image, result, detected_diseases, advice,
                   page, calls, removes, answered>>

\* A variant of the call that tries a second time before it gives up.
RunWorkflowRetry ==
    /\ pc = "infer"
    /\ \/ \E r \in Responses :
            /\ calls' = [calls EXCEPT ![idx] = @ + 1]
            /\ result' = r
            /\ answered' = [answered EXCEPT ![idx] = Kind(r)]
            /\ pc' = "interpret"
            /\ exc' = exc
       \/ /\ calls' = [calls EXCEPT ![idx] = @ + 2]
          /\ answered' = [answered EXCEPT ![idx] = "raised"]
          /\ Raise("HTTPCallErrorError")
          /\ result' = result
    /\ UNCHANGED <<uploaded_files, idx, image, temp_files, temp_image_path,
                   detected_diseases, advice, page, removes>>

\* app.py:94-100  client.run_workflow(...): it returns a response, or it
\* raises (network, authentication, parsing of the reply).
RunWorkflow ==
    /\ pc = "infer"
    /\ calls' = [calls EXCEPT ![idx] = @ + 1]
    /\ \/ \E r \in Responses :
            /\ result' = r
            /\ answered' = [answered EXCEPT ![idx] = Kind(r)]
            /\ pc' = "interpret"
            /\ exc' = exc
       \/ /\ answered' = [answered EXCEPT ![idx] = "raised"]
          /\ Raise("HTTPCallErrorError")
          /\ result' = result
    /\ UNCHANGED <<uploaded_files, idx, image, temp_files, temp_image_path,
                   detected_diseases, advice, page, removes>>

\* A variant of line 106 that keeps the set of the previous image.
StaleDiseaseSet == detected_diseases

\* app.py:106  detected_diseases = set()
NewDiseaseSet == {}

\* app.py:102-133  the interpretation of the response
Interpret ==
    /\ pc = "interpret"
    /\ IF ~WellFormed(result)
       THEN \* 132-133
            /\ Show(<<"warning">>)
            /\ pc' = "remove"
            /\ UNCHANGED <<exc, image, detected_diseases, advice>>
       ELSE IF Kind(result) \in {"empty_result", "no_predictions", "no_inner_predictions"}
       THEN \* 103: a subscript with a missing key raises KeyError
            /\ Raise("KeyError")
            /\ UNCHANGED <<image, detected_diseases, advice, page>>
       ELSE IF Detections(result) = <<>>
       THEN \* 129-131
            /\ Show(<<"success", "healthy_image">>)
            /\ pc' = "remove"
            /\ UNCHANGED <<exc, image, detected_diseases, advice>>
       ELSE \* 105-128
            LET out == DrawAll(Detections(result), 1, image, NewDiseaseSet)
            IN  /\ image' = out.image
                /\ detected_diseases' = out.diseases
                /\ IF out.raised
                   THEN /\ Raise("KeyError")
                        /\ UNCHANGED <<advice, page>>
                   ELSE /\ \E order \in Orderings(out.diseases) :
                             advice' = [m \in DOMAIN order |-> AdviceBlock(order[m])]
                        /\ Show(<<"annotated_image", "advice_header">>
                                  \o [m \in 1..Cardinality(out.diseases) |-> "advice_block"])
                        /\ pc' = "remove"
                        /\ exc' = exc
    /\ UNCHANGED <<uploaded_files, idx, temp_files, temp_image_path, result,
                   calls, removes, answered>>

\* A variant of line 135 that leaves the file where it is.
RemoveTempSkipped ==
    /\ pc = "remove"
    /\ NextFile
    /\ UNCHANGED <<uploaded_files, exc, image, temp_files, temp_image_path, result,
                   detected_diseases, advice, page, calls, removes, answered>>

\* app.py:135  os.remove(temp_image_path), the last statement of the try body
RemoveTemp ==
    /\ pc = "remove"
    /\ IF temp_image_path \in temp_files
       THEN /\ temp_files' = temp_files \ {temp_image_path}
            /\ removes' = [removes EXCEPT ![temp_image_path] = @ + 1]
            /\ NextFile
            /\ exc' = exc
       ELSE /\ Raise("FileNotFoundError")
            /\ UNCHANGED <<idx, temp_files, removes>>
    /\ UNCHANGED <<uploaded_files, image, temp_image_path, result,
                   detected_diseases, advice, page, calls, answered>>

\* app.py:137-138  except UnidentifiedImageError
HandleUnidentifiedImageError ==
    /\ pc = "except"
    /\ exc = "UnidentifiedImageError"
    /\ Show(<<"error_invalid">>)
    /\ exc' = "none"
    /\ NextFile
    /\ UNCHANGED <<uploaded_files, image, temp_files, temp_image_path, result,
                   detected_diseases, advice, calls, removes, answered>>

\* A variant without the catch-all clause: the message is the traceback
\* and the script run ends there.
HandleExceptionAbort ==
    /\ pc = "except"
    /\ exc # "UnidentifiedImageError"
    /\ Show(<<"error_inference">>)
    /\ exc' = "none"
    /\ pc' = "footer"
    /\ UNCHANGED <<uploaded_files, idx, image, temp_files, temp_image_path, result,
                   detected_diseases, advice, calls, removes, answered>>

\* app.py:139-140  except Exception as e
HandleException ==
    /\ pc = "except"
    /\ exc # "UnidentifiedImageError"
    /\ Show(<<"error_inference">>)
    /\ exc' = "none"
    /\ NextFile
    /\ UNCHANGED <<uploaded_files, image, temp_files, temp_image_path, result,
                   detected_diseases, advice, calls, removes, answered>>

\* app.py:144  the footer; the script run is over
Footer ==
    /\ pc = "footer"
    /\ pc' = "done"
    /\ UNCHANGED <<uploaded_files, idx, exc, image, temp_files, temp_image_path, result,
                   detected_diseases, advice, page, calls, removes, answered>>

Next ==
    \/ Start
    \/ ShowInfo
    \/ OpenImage
    \/ SaveTemp
    \/ RunWorkflow
    \/ Interpret
    \/ RemoveTemp
    \/ HandleUnidentifiedImageError
    \/ HandleException
    \/ Footer

Spec == Init /\ [][Next]_vars

\* The script runs to its end: every statement returns or raises.
FairSpec == Spec /\ WF_vars(Next)

----------------------------------------------------------------------------
\* Vocabulary of the properties

\* Image j has left the loop body: a later file is current, or the loop ended.
Finished(j) == j < idx \/ pc \in {"footer", "done"}

Has(j, kind) == \E m \in DOMAIN page[j] : page[j][m] = kind

Count(j, kinds) == Cardinality({m \in DOMAIN page[j] : page[j][m] \in kinds})

Errors == {"error_invalid", "error_inference"}

Outcomes == {"annotated_image", "success", "warning", "error_invalid", "error_inference"}

Malformed == {"empty_result", "no_predictions", "no_inner_predictions"}

\* The current image has been interpreted and its detections rendered.
Rendered == pc = "remove" /\ idx \in 1..N /\ answered[idx] = "detections"

TriplesOf(dets) == {Triple(dets[k]) : k \in DOMAIN dets}

Blocks(t) == {m \in DOMAIN advice : advice[m] = AdviceBlock(t)}

----------------------------------------------------------------------------
\* C1: whenever processing image j fails (the upload is no valid image, or
\* the inference call raises), an error is shown in the section of image j,
\* and the loop does not end there: when the script ends, every later image
\* has been processed and has its outcome.
C1_FailureDoesNotStopLoop ==
    \A j \in 1..N :
        (Finished(j) /\ (uploaded_files[j] # "image" \/ answered[j] = "raised")) =>
            /\ Count(j, Errors) >= 1
            /\ pc \in {"footer", "done"} =>
                  \A m \in (j + 1)..N : Has(m, "header") /\ Count(m, Outcomes) >= 1

C1_Witness ==
    /\ pc = "done" /\ N = 2
    /\ answered[1] = "raised" /\ Has(1, "error_inference")
    /\ Has(2, "annotated_image")

\* C2 (as claimed): on every exit path of an image's processing, the
\* temporary file created for it no longer exists when its processing ends.
C2_NoTempFileRemains ==
    \A j \in 1..N : Finished(j) => TempName(j) \notin temp_files

\* C3: on the normal exit path (the call returned, nothing raised), the
\* temporary file of the image is removed exactly once before the next
\* image starts, whichever branch was taken; no file is removed twice.
C3_NormalPathRemovesOnce ==
    \A j \in 1..N :
        /\ removes[j] <= 1
        /\ (Finished(j) /\ answered[j] \notin {"not_called", "raised"} /\ Count(j, Errors) = 0) =>
              /\ removes[j] = 1
              /\ TempName(j) \notin temp_files
              /\ Count(j, {"annotated_image", "success", "warning"}) = 1

C3_Witness ==
    /\ N = 2 /\ idx = 2 /\ pc = "open"
    /\ answered[1] = "detections" /\ Has(1, "annotated_image")
    /\ removes[1] = 1 /\ temp_files = {}

\* C4: a well-formed response with an empty detections list gives the
\* healthy outcome and nothing else: no error, no warning, no rectangle on
\* the image and no advice block.
C4_EmptyIsHealthy ==
    \A j \in 1..N :
        (answered[j] = "no_detections" /\ (Finished(j) \/ (j = idx /\ pc = "remove"))) =>
            /\ page[j] = <<"header", "uploaded_image", "success", "healthy_image">>
            /\ (j = idx /\ pc = "remove") => (image = <<>> /\ advice = <<>>)

C4_Witness ==
    /\ pc = "remove" /\ idx = 2
    /\ answered[2] = "no_detections" /\ Has(2, "success")
    /\ answered[1] = "detections" /\ Has(1, "advice_block")

C6_MalformedRecordsSkipped ==
    (/\ pc \in {"remove", "except"}
     /\ idx \in 1..N
     /\ answered[idx] = "detections"
     /\ \E k \in DOMAIN Detections(result) : ~HasGeometry(Detections(result)[k])) =>
        /\ pc = "remove"
        /\ \A k \in DOMAIN Detections(result) :
              HasGeometry(Detections(result)[k]) =>
                  /\ \E m \in DOMAIN image : image[m] = Shape(Detections(result)[k])
                  /\ Blocks(Triple(Detections(result)[k])) # {}

\* The label the claim gives for a detection: the table's name for class
\* identifiers 0..3 and "Unknown" otherwise, then the percentage nearest to
\* confidence*100 with one decimal.
ExpectedName(pred) ==
    IF "class_id" \notin DOMAIN pred THEN "Unknown"
    ELSE CASE pred.class_id = 0 -> "Leaf Spot"
           [] pred.class_id = 1 -> "Powdery Mildew"
           [] pred.class_id = 2 -> "Rust"
           [] pred.class_id = 3 -> "Blight"
           [] OTHER -> "Unknown"

ExpectedDesc(pred) ==
    IF ExpectedName(pred) = "Unknown" THEN "No description available."
    ELSE DISEASE_INFO[ToString(pred.class_id)].description

ExpectedPct(conf) ==
    LET t == CHOOSE t \in 0..1000 : 10 * t - 5 < conf /\ conf < 10 * t + 5
    IN  ToString(t \div 10) \o "." \o ToString(t % 10)

ExpectedLabel(pred) ==
    ExpectedName(pred) \o " ("
        \o ExpectedPct(IF "confidence" \in DOMAIN pred THEN pred.confidence ELSE 0) \o "%)"

\* C7: every detection is drawn with the label "<name> (<confidence*100 to
\* one decimal>%)", the name being the table's name of the class identifier
\* when it is one of 0..3 and "Unknown" (with "No description available.")
\* otherwise; class_id 1 with confidence 0.87 gives "Powdery Mildew (87.0%)".
C7_Labels ==
    Rendered =>
        /\ Len(image) = Len(Detections(result))
        /\ \A k \in DOMAIN Detections(result) :
              LET pred == Detections(result)[k]
              IN  /\ image[k].label = ExpectedLabel(pred)
                  /\ \E t \in detected_diseases :
                        t[1] = ExpectedName(pred) /\ t[2] = ExpectedDesc(pred)
                  /\ (pred = PredExample) => image[k].label = "Powdery Mildew (87.0%)"

C7_Witness ==
    /\ Rendered
    /\ Len(image) = 2
    /\ image[1].label = "Powdery Mildew (87.0%)"
    /\ image[2].label = "Unknown (100.0%)"

C9_InvalidUpload ==
    \A j \in 1..N :
        (Finished(j) /\ uploaded_files[j] # "image") =>
            /\ page[j] = <<"header", "error_invalid">>
            /\ calls[j] = 0
            /\ removes[j] = 0
            /\ TempName(j) \notin temp_files
            /\ pc \in {"footer", "done"} => \A m \in (j + 1)..N : Has(m, "header")

\* The part of C10 that holds in every state.
C10_Safety ==
    /\ \A j \in 1..N :
          /\ calls[j] <= 1
          /\ (page[j] # <<>> \/ calls[j] > 0) => (idx >= j /\ \A m \in 1..(j - 1) : Finished(m))
          /\ Count(j, Outcomes) <= 1
          /\ Finished(j) => Count(j, Outcomes) = 1
          /\ Has(j, "annotated_image") => Has(j, "advice_block")
          /\ Count(j, Errors) >= 1 =>
                Count(j, {"annotated_image", "advice_header", "advice_block"}) = 0
    /\ pc = "done" => \A j \in 1..N : Finished(j) /\ Has(j, "header")

\* C10: the images are processed one at a time in upload order, with at most
\* one inference call each; every image ends with exactly one outcome among
\* annotated result with advice, healthy, invalid-response warning,
\* invalid-image error and inference error; an image whose processing raised
\* shows the error and no annotated result; and the loop terminates with an
\* outcome for every image.
C10_OneOutcomeEachAndTermination == []C10_Safety /\ <>(pc = "done")

C10_Witness ==
    /\ pc = "done" /\ N = 2
    /\ Has(1, "success")
    /\ answered[2] = "detections" /\ Has(2, "error_inference")
    /\ image # <<>>
    /\ calls = <<1, 1>>

====
